---- MODULE Spec2Model ----
(***************************************************************************)
(* CT console simulator: exam workflow gate (SimTomLayout +               *)
(* LeftControlPanel) and planning geometry (ScoutViewer).                 *)
(*                                                                         *)
(* One action is one JavaScript task: a DOM event handler or the          *)
(* continuation of an async handler after its await, together with the    *)
(* React render and the effects that the state updates of that task       *)
(* trigger.                                                                *)
(*                                                                         *)
(* Planning coordinates are image pixels held as JavaScript numbers; the  *)
(* model holds them as integers counted in 1/Sub of a pixel, which is     *)
(* exact for the display scales used here.                                 *)
(***************************************************************************)
EXTENDS Integers, FiniteSets, Sequences, TLC

VARIABLES
    caseId,             \* SimTomLayout: useState('')
    scoutRefreshToken,  \* SimTomLayout: 0, or 1 for a Date.now() stamp
    isPlanningActive,   \* SimTomLayout
    scanState,          \* SimTomLayout: {isScanning, currentSlice, totalSlices}
    planningData,       \* SimTomLayout: {} or the viewer's last notification
    scoutCompleted,     \* SimTomLayout
    loading,            \* LeftControlPanel
    planningCompleted,  \* LeftControlPanel
    error,              \* LeftControlPanel: null or the message shown
    scoutSize,          \* ScoutViewer: null or {width, height}
    planning,           \* ScoutViewer: {startY, endY, fov}
    dragging,           \* ScoutViewer: null or the grabbed handle
    dragStartRef,       \* ScoutViewer: anchor captured at pointer-down
    scoutPending,       \* getScoutImage calls in flight, per requested case
    savePending,        \* the savePlanning call of handleEndPlanning in flight
    reconPending,       \* the applyReconstruction call of handleStartScan in flight
    stopCtPending,      \* stopCt calls in flight
    dragSavePending,    \* savePlanning calls of handleMouseUp in flight
    moves,              \* pointer-move events counted in runs of the overlay alone
    lastSaved           \* history: what the last resolved save of handleEndPlanning
                        \* persisted, when it is the geometry of the current case at
                        \* that moment and no scout request is in flight; kept until
                        \* a drag, a Scout Scan, a case change, or the next End
                        \* Planning or Start Scan

vars == << caseId, scoutRefreshToken, isPlanningActive, scanState, planningData,
           scoutCompleted, loading, planningCompleted, error, scoutSize, planning,
           dragging, dragStartRef, scoutPending, savePending, reconPending,
           stopCtPending, dragSavePending, moves, lastSaved >>

----------------------------------------------------------------------------
(* Bounds of the model *)

\* planning coordinates are counted in 1/Sub of an image pixel
Sub == 2
\* collaborator calls in flight at once that no control waits for: getScoutImage,
\* stopCt and the savePlanning of handleMouseUp
MaxInFlight == 2
\* pointer-move events in one run of the planning overlay alone
MaxGeomMoves == 3
\* largest slice index and slice count of a scan-state update
MaxSlice == 7
\* largest width and height, in pixels, of a scout frame in runs of the load alone
MaxFrameDim == 36

(* Program constants *)

\* minimal distance, in pixels, between two opposite edges
MIN_GAP == 20

NoCase == ""
CaseIds == {"A", "B"}

\* the scout image the scout collaborator returns for a case: {cols, rows}
FrameOf(c) == IF c = "A" THEN [width |-> 80, height |-> 100]
                         ELSE [width |-> 40, height |-> 50]

\* containerRef.current.getBoundingClientRect()
Rect == [left |-> 2, top |-> 3, width |-> 40, height |-> 50]

\* pointer positions of pointer-move events, inside the container
PointerXs == {Rect.left + 30}
PointerYs == {Rect.top + 25}
GeomPointerXs == {Rect.left, Rect.left + 15, Rect.left + 40}
GeomPointerYs == {Rect.top, Rect.top + 10, Rect.top + 35, Rect.top + 50}

Handles == {"start", "end", "fov", "fov-top", "fov-bottom", "fov-left", "fov-right"}
\* the handle grabbed in runs of the whole console
ConsoleHandles == {"start"}
NoHandle == "null"

\* error === null
NoError == "null"
\* scoutSize === null
NoFrame == [width |-> 0, height |-> 0]
\* no save of handleEndPlanning on record
NoSave == [case_id |-> ""]

----------------------------------------------------------------------------
(* Arithmetic of the source *)

\* a maximum that returns its first argument
Max_First(a, b) == a

Max(a, b) == IF a >= b THEN a ELSE b
Min(a, b) == IF a <= b THEN a ELSE b

\* a whole number of pixels as a planning coordinate
Px(n) == n * Sub

\* Math.round of a planning coordinate: nearest integer, ties upwards
Round(u) == (2 * u + Sub) \div (2 * Sub)

\* Math.round(n * 0.2) and Math.round(n * 0.8) of a whole number n
RoundTenths(n, tenths) == (2 * n * tenths + 10) \div 20

\* (display distance) * (image size / display size), as a planning coordinate
Scaled(d, imageDim, rectDim) == (d * Sub * imageDim) \div rectDim

----------------------------------------------------------------------------
(* ScoutViewer: planning geometry *)

Fov(xMin, xMax, yMin, yMax) == [x_min |-> xMin, x_max |-> xMax, y_min |-> yMin, y_max |-> yMax]

\* useState<PlanningLines>({ startY: 100, endY: 400, fov: {100, 300, 100, 300} })
InitialPlanning == [startY |-> Px(100), endY |-> Px(400),
                    fov |-> Fov(Px(100), Px(300), Px(100), Px(300))]

InitialDragStart == [y |-> 0, startY |-> 0, endY |-> 0, fov |-> InitialPlanning.fov]

\* a load that keeps the initial values of the planning state
DefaultPlanning_KeepsInitial(size) == InitialPlanning

\* loadScout: planning lines at 20% and 80% of the image height, FOV inset by
\* 20% of the image width
DefaultPlanning(size) ==
    LET defaultStartY == RoundTenths(size.height, 2)
        defaultEndY == RoundTenths(size.height, 8)
        defaultFovMargin == RoundTenths(size.width, 2)
    IN  [startY |-> Px(defaultStartY), endY |-> Px(defaultEndY),
         fov |-> Fov(Px(defaultFovMargin), Px(size.width - defaultFovMargin),
                     Px(defaultStartY), Px(defaultEndY))]

\* the planning data the viewer hands to onPlanningDataReady
EmptyPlanningData == [defined |-> FALSE, z_pixel_start |-> 0, z_pixel_end |-> 0,
                      scout_height_px |-> 0, fov |-> Fov(0, 0, 0, 0)]

PlanningDataOf(p, size) == [defined |-> TRUE, z_pixel_start |-> p.startY,
                            z_pixel_end |-> p.endY, scout_height_px |-> size.height,
                            fov |-> p.fov]

\* useEffect([planning, scoutSize, onPlanningDataReady]): runs after a render in
\* which planning or scoutSize was replaced, and notifies only with a scout loaded
Notified(p, size) == IF size # NoFrame THEN PlanningDataOf(p, size) ELSE planningData

\* first display row of a handle drawn at image row u (style top: u / height * 100%)
DisplayY(u, size) == Rect.top + ((u * Rect.height + Sub * size.height - 1) \div (Sub * size.height))

\* e.clientY of a pointer-down on a handle: the pointer is on the handle
HandleClientY(target, p, size) ==
    CASE target = "start" -> DisplayY(p.startY, size)
      [] target = "end" -> DisplayY(p.endY, size)
      [] target = "fov-top" -> DisplayY(p.fov.y_min, size)
      [] target = "fov-bottom" -> DisplayY(p.fov.y_max, size)
      [] OTHER -> DisplayY((p.fov.y_min + p.fov.y_max) \div 2, size)

\* the halves fovWidth / 2 and fovHeight / 2 are planning coordinates of the model
Halvable(anchor) == /\ (anchor.fov.x_max - anchor.fov.x_min) % 2 = 0
                    /\ (anchor.fov.y_max - anchor.fov.y_min) % 2 = 0

\* a pointer-move that resizes the FOV edges without the lines following
MovedPlanning_EdgesOnly(p, anchor, target, clientX, clientY, size) ==
    LET deltaX == Scaled(clientX - Rect.left, size.width, Rect.width)
        currentY == Scaled(clientY - Rect.top, size.height, Rect.height)
    IN  CASE target = "fov-top" ->
               [p EXCEPT !.fov.y_min = Max(0, Min(currentY, p.fov.y_max - Px(MIN_GAP)))]
          [] target = "fov-bottom" ->
               [p EXCEPT !.fov.y_max = Min(Px(size.height), Max(currentY, p.fov.y_min + Px(MIN_GAP)))]
          [] target = "fov-left" ->
               [p EXCEPT !.fov.x_min = Max(0, Min(deltaX, p.fov.x_max - Px(MIN_GAP)))]
          [] target = "fov-right" ->
               [p EXCEPT !.fov.x_max = Min(Px(size.width), Max(deltaX, p.fov.x_min + Px(MIN_GAP)))]
          [] OTHER -> p

\* a pointer-move that shifts both lines by the pointer delta, whatever the handle
MovedPlanning_ShiftsBothLines(p, anchor, target, clientX, clientY, size) ==
    LET deltaY == Scaled(clientY - anchor.y, size.height, Rect.height)
    IN  [p EXCEPT !.startY = anchor.startY + deltaY, !.fov.y_min = anchor.startY + deltaY,
                  !.endY = anchor.endY + deltaY, !.fov.y_max = anchor.endY + deltaY]

\* handleMouseMove: the planning state after a pointer-move at (clientX, clientY)
MovedPlanning(p, anchor, target, clientX, clientY, size) ==
    LET deltaY == Scaled(clientY - anchor.y, size.height, Rect.height)
        deltaX == Scaled(clientX - Rect.left, size.width, Rect.width)
        currentY == Scaled(clientY - Rect.top, size.height, Rect.height)
        fovWidth == anchor.fov.x_max - anchor.fov.x_min
        fovHeight == anchor.fov.y_max - anchor.fov.y_min
    IN  CASE target = "start" ->
               LET newStartY == Max(0, Min(anchor.startY + deltaY, p.endY - Px(MIN_GAP)))
               IN  [p EXCEPT !.startY = newStartY, !.fov.y_min = newStartY]
          [] target = "end" ->
               LET newEndY == Min(Px(size.height), Max(anchor.endY + deltaY, p.startY + Px(MIN_GAP)))
               IN  [p EXCEPT !.endY = newEndY, !.fov.y_max = newEndY]
          [] target = "fov" ->
               LET newXMin == Max(0, Min(deltaX - fovWidth \div 2, Px(size.width) - fovWidth))
                   newYMin == Max(0, Min(currentY - fovHeight \div 2, Px(size.height) - fovHeight))
               IN  [p EXCEPT !.fov = Fov(newXMin, newXMin + fovWidth, newYMin, newYMin + fovHeight)]
          [] target = "fov-left" ->
               [p EXCEPT !.fov.x_min = Max(0, Min(deltaX, p.fov.x_max - Px(MIN_GAP)))]
          [] target = "fov-right" ->
               [p EXCEPT !.fov.x_max = Min(Px(size.width), Max(deltaX, p.fov.x_min + Px(MIN_GAP)))]
          [] target = "fov-top" ->
               LET newYMin == Max(0, Min(currentY, p.fov.y_max - Px(MIN_GAP)))
               IN  [p EXCEPT !.startY = newYMin, !.fov.y_min = newYMin]
          [] target = "fov-bottom" ->
               LET newYMax == Min(Px(size.height), Max(currentY, p.fov.y_min + Px(MIN_GAP)))
               IN  [p EXCEPT !.endY = newYMax, !.fov.y_max = newYMax]

\* an anchor that captures the two lines in each other's place
AnchorAt_SwapsLines(target, p, size) ==
    [y |-> HandleClientY(target, p, size),
     startY |-> p.endY, endY |-> p.startY, fov |-> p.fov]

\* handleMouseDown: the anchor captured in dragStartRef by a pointer-down on a handle
AnchorAt(target, p, size) ==
    [y |-> HandleClientY(target, p, size),
     startY |-> p.startY, endY |-> p.endY, fov |-> p.fov]

\* one drag of a line handle: pointer-down on it, then one pointer-move to row y
Dragged(p, target, y, size) ==
    MovedPlanning(p, AnchorAt(target, p, size), target, Rect.left, y, size)

\* handleMouseUp: the body of the savePlanning call
RoundedPayload(case, p, height) ==
    [case_id |-> case,
     z_pixel_start |-> Round(p.startY), z_pixel_end |-> Round(p.endY),
     scout_height_px |-> height,
     fov |-> Fov(Round(p.fov.x_min), Round(p.fov.x_max), Round(p.fov.y_min), Round(p.fov.y_max))]

----------------------------------------------------------------------------
(* LeftControlPanel: workflow conditions *)

\* a gate that forgets planningCompleted: Start Planning stays enabled after a
\* saved endPlanning
canStartPlanning_IgnoresCompleted == scoutCompleted /\ ~isPlanningActive
canStartPlanning == scoutCompleted /\ ~isPlanningActive /\ ~planningCompleted
canEndPlanning == isPlanningActive
canEditRecon == planningCompleted /\ ~scanState.isScanning
canStartScan == planningCompleted /\ ~scanState.isScanning

IdleScan == [isScanning |-> FALSE, currentSlice |-> 0, totalSlices |-> 0]

\* handleEndPlanning: planningData carries both z bounds
WellFormed(data) == data.defined

\* handleEndPlanning: the body of the savePlanning call
EndPlanningPayload(case, data) ==
    [case_id |-> case,
     z_pixel_start |-> Round(data.z_pixel_start), z_pixel_end |-> Round(data.z_pixel_end),
     scout_height_px |-> IF data.scout_height_px = 0 THEN 1000 ELSE data.scout_height_px,
     fov |-> Fov(Round(data.fov.x_min), Round(data.fov.x_max),
                 Round(data.fov.y_min), Round(data.fov.y_max))]

\* the planning data handed to applyReconstruction holds, rounded, the lines and
\* the FOV of a persisted payload
SameGeometry(data, payload) ==
    /\ data.defined
    /\ Round(data.z_pixel_start) = payload.z_pixel_start
    /\ Round(data.z_pixel_end) = payload.z_pixel_end
    /\ Fov(Round(data.fov.x_min), Round(data.fov.x_max),
           Round(data.fov.y_min), Round(data.fov.y_max)) = payload.fov

\* the workflow facts held by SimTomLayout and LeftControlPanel
WorkflowFacts == [scoutCompleted |-> scoutCompleted,
                  isPlanningActive |-> isPlanningActive,
                  planningCompleted |-> planningCompleted,
                  scanState |-> scanState]

\* a scout completion that flips the fact instead of setting it
CompleteScout_Toggles(w) == [w EXCEPT !.scoutCompleted = ~w.scoutCompleted]

\* handleScoutScan on the workflow facts: setScoutCompleted(true)
CompleteScout(w) == [w EXCEPT !.scoutCompleted = TRUE]

----------------------------------------------------------------------------
Init ==
    /\ caseId = NoCase
    /\ scoutRefreshToken = 0
    /\ isPlanningActive = FALSE
    /\ scanState = IdleScan
    /\ planningData = EmptyPlanningData
    /\ scoutCompleted = FALSE
    /\ loading = FALSE
    /\ planningCompleted = FALSE
    /\ error = NoError
    /\ scoutSize = NoFrame
    /\ planning = InitialPlanning
    /\ dragging = NoHandle
    /\ dragStartRef = InitialDragStart
    /\ scoutPending = [c \in CaseIds |-> 0]
    /\ savePending = {}
    /\ reconPending = {}
    /\ stopCtPending = 0
    /\ dragSavePending = 0
    /\ moves = 0
    /\ lastSaved = NoSave

viewerVars == << scoutSize, planning, dragging, dragStartRef, dragSavePending, moves >>
asyncPanelVars == << savePending, reconPending, stopCtPending, error >>

----------------------------------------------------------------------------
(* SimTomLayout and LeftControlPanel *)

\* the refresh effect of ScoutViewer after setScoutRefreshToken(Date.now()):
\* loadScout() is called for the case of the current render
RefreshRequested(case) ==
    IF case # NoCase THEN [scoutPending EXCEPT ![case] = @ + 1] ELSE scoutPending

\* collaborator calls in flight that no control waits for
RECURSIVE SumOver(_, _)
SumOver(f, S) == IF S = {} THEN 0
                 ELSE LET x == CHOOSE x \in S : TRUE IN f[x] + SumOver(f, S \ {x})

InFlight == SumOver(scoutPending, CaseIds) + stopCtPending + dragSavePending

CanRequestScout(case) == case = NoCase \/ InFlight < MaxInFlight

\* a case change without the effect of LeftControlPanel on caseId
CaseChange_KeepsPlanningCompleted(newCaseId) ==
    /\ newCaseId # caseId
    /\ caseId' = newCaseId
    /\ scanState' = IdleScan
    /\ planningData' = EmptyPlanningData
    /\ isPlanningActive' = FALSE
    /\ scoutCompleted' = FALSE
    /\ scoutRefreshToken' = 0
    /\ IF newCaseId = NoCase
       THEN scoutSize' = NoFrame /\ planning' = InitialPlanning
       ELSE UNCHANGED << scoutSize, planning >>
    /\ UNCHANGED << loading, error, dragging, dragStartRef, dragSavePending, moves,
                    scoutPending, savePending, reconPending, stopCtPending,
                    planningCompleted >>
    /\ lastSaved' = NoSave

\* the case selector picks another case: handleCaseChange, then the effects on
\* caseId of LeftControlPanel (planningCompleted) and of ScoutViewer
CaseChange(newCaseId) ==
    /\ newCaseId # caseId
    /\ caseId' = newCaseId
    /\ scanState' = IdleScan
    /\ planningData' = EmptyPlanningData
    /\ isPlanningActive' = FALSE
    /\ scoutCompleted' = FALSE
    /\ scoutRefreshToken' = 0
    /\ planningCompleted' = FALSE
    /\ IF newCaseId = NoCase
       THEN scoutSize' = NoFrame /\ planning' = InitialPlanning
       ELSE UNCHANGED << scoutSize, planning >>
    /\ UNCHANGED << loading, error, dragging, dragStartRef, dragSavePending, moves,
                    scoutPending, savePending, reconPending, stopCtPending >>
    /\ lastSaved' = NoSave

\* Scout Scan button: handleScoutScan, then the refresh effect of ScoutViewer
ScoutScan ==
    /\ ~loading /\ ~scanState.isScanning
    /\ CanRequestScout(caseId)
    /\ scoutRefreshToken' = 1
    /\ scoutCompleted' = TRUE
    /\ scoutPending' = RefreshRequested(caseId)
    /\ UNCHANGED << caseId, isPlanningActive, scanState, planningData, loading,
                    planningCompleted >>
    /\ UNCHANGED viewerVars
    /\ UNCHANGED asyncPanelVars
    /\ lastSaved' = NoSave

\* loadScout after its await: getScoutImage answered with a scout of cols x rows
\* = size
ScoutLoadedWith(case, size) ==
    /\ scoutPending[case] > 0
    /\ scoutPending' = [scoutPending EXCEPT ![case] = @ - 1]
    /\ scoutSize' = size
    /\ planning' = DefaultPlanning(size)
    /\ planningData' = Notified(planning', scoutSize')
    /\ UNCHANGED << caseId, scoutRefreshToken, isPlanningActive, scanState,
                    scoutCompleted, loading, planningCompleted, dragging, dragStartRef,
                    dragSavePending, moves >>
    /\ UNCHANGED asyncPanelVars
    /\ UNCHANGED lastSaved

\* loadScout after its await: getScoutImage answered with the scout of the
\* requested case
ScoutLoaded(case) == ScoutLoadedWith(case, FrameOf(case))

\* loadScout after its await: no response, or getScoutImage threw
ScoutFailed(case) ==
    /\ scoutPending[case] > 0
    /\ scoutPending' = [scoutPending EXCEPT ![case] = @ - 1]
    /\ UNCHANGED << caseId, scoutRefreshToken, isPlanningActive, scanState, planningData,
                    scoutCompleted, loading, planningCompleted >>
    /\ UNCHANGED viewerVars
    /\ UNCHANGED asyncPanelVars
    /\ UNCHANGED lastSaved

\* a Start Planning button that is never disabled by its gate
StartPlanning_Ungated ==
    /\ ~loading
    /\ isPlanningActive' = TRUE
    /\ UNCHANGED << caseId, scoutRefreshToken, scanState, planningData, scoutCompleted,
                    loading, planningCompleted, scoutPending >>
    /\ UNCHANGED viewerVars
    /\ UNCHANGED asyncPanelVars
    /\ UNCHANGED lastSaved

\* Start Planning button: handleStartPlanning -> handlePlanningStart
StartPlanning ==
    /\ canStartPlanning /\ ~loading
    /\ isPlanningActive' = TRUE
    /\ UNCHANGED << caseId, scoutRefreshToken, scanState, planningData, scoutCompleted,
                    loading, planningCompleted, scoutPending >>
    /\ UNCHANGED viewerVars
    /\ UNCHANGED asyncPanelVars
    /\ UNCHANGED lastSaved

\* a handlePlanningEnd that does not leave planning mode
PlanningEnd_KeepsActive ==
    /\ isPlanningActive' = isPlanningActive
    /\ scoutRefreshToken' = 1
    /\ scoutPending' = RefreshRequested(caseId)

\* handlePlanningEnd, then the refresh effect of ScoutViewer
PlanningEnd ==
    /\ isPlanningActive' = FALSE
    /\ scoutRefreshToken' = 1
    /\ scoutPending' = RefreshRequested(caseId)

\* an End Planning button that stays enabled while loading
EndPlanning_EnabledWhileLoading ==
    /\ canEndPlanning
    /\ IF WellFormed(planningData)
       THEN /\ loading' = TRUE
            /\ savePending' = {EndPlanningPayload(caseId, planningData)}
            /\ UNCHANGED << isPlanningActive, scoutRefreshToken, scoutPending >>
       ELSE /\ CanRequestScout(caseId)
            /\ PlanningEnd
            /\ UNCHANGED << loading, savePending >>
    /\ UNCHANGED << caseId, scanState, planningData, scoutCompleted, planningCompleted,
                    error, reconPending, stopCtPending >>
    /\ UNCHANGED viewerVars
    /\ lastSaved' = NoSave

\* End Planning button: handleEndPlanning up to its await, or to its end when
\* the planning data is not well-formed
EndPlanning ==
    /\ canEndPlanning /\ ~loading
    /\ IF WellFormed(planningData)
       THEN /\ loading' = TRUE
            /\ savePending' = {EndPlanningPayload(caseId, planningData)}
            /\ UNCHANGED << isPlanningActive, scoutRefreshToken, scoutPending >>
       ELSE /\ CanRequestScout(caseId)
            /\ PlanningEnd
            /\ UNCHANGED << loading, savePending >>
    /\ UNCHANGED << caseId, scanState, planningData, scoutCompleted, planningCompleted,
                    error, reconPending, stopCtPending >>
    /\ UNCHANGED viewerVars
    /\ lastSaved' = NoSave

\* a resolved save that does not mark planning as completed
EndPlanningSaved_NotCompleting ==
    /\ savePending # {}
    /\ CanRequestScout(caseId)
    /\ savePending' = {}
    /\ loading' = FALSE
    /\ PlanningEnd
    /\ UNCHANGED << caseId, scanState, planningData, scoutCompleted, error,
                    reconPending, stopCtPending, planningCompleted >>
    /\ UNCHANGED viewerVars
    /\ lastSaved' = LET q == CHOOSE q \in savePending : TRUE
                    IN  IF /\ q.case_id = caseId /\ SameGeometry(planningData, q)
                           /\ \A c \in CaseIds : scoutPending[c] = 0
                        THEN q ELSE NoSave

\* handleEndPlanning after its await: savePlanning resolved
EndPlanningSaved ==
    /\ savePending # {}
    /\ CanRequestScout(caseId)
    /\ savePending' = {}
    /\ planningCompleted' = TRUE
    /\ loading' = FALSE
    /\ PlanningEnd
    /\ UNCHANGED << caseId, scanState, planningData, scoutCompleted, error,
                    reconPending, stopCtPending >>
    /\ UNCHANGED viewerVars
    /\ lastSaved' = LET q == CHOOSE q \in savePending : TRUE
                    IN  IF /\ q.case_id = caseId /\ SameGeometry(planningData, q)
                           /\ \A c \in CaseIds : scoutPending[c] = 0
                        THEN q ELSE NoSave

\* a rejection handled like a success: setPlanningCompleted(true) in the catch
EndPlanningSaveFailed_Completes ==
    /\ savePending # {}
    /\ CanRequestScout(caseId)
    /\ savePending' = {}
    /\ error' = "Failed to save planning"
    /\ planningCompleted' = TRUE
    /\ loading' = FALSE
    /\ PlanningEnd
    /\ UNCHANGED << caseId, scanState, planningData, scoutCompleted,
                    reconPending, stopCtPending >>
    /\ UNCHANGED viewerVars
    /\ UNCHANGED lastSaved

\* handleEndPlanning after its await: savePlanning rejected
EndPlanningSaveFailed ==
    /\ savePending # {}
    /\ CanRequestScout(caseId)
    /\ savePending' = {}
    /\ error' = "Failed to save planning"
    /\ loading' = FALSE
    /\ PlanningEnd
    /\ UNCHANGED << caseId, scanState, planningData, scoutCompleted, planningCompleted,
                    reconPending, stopCtPending >>
    /\ UNCHANGED viewerVars
    /\ UNCHANGED lastSaved

\* a handleStartScan that starts the scan before the reconstruction call
StartScan_BeforeReconstruction ==
    /\ canStartScan /\ ~loading
    /\ error' = NoError
    /\ scanState' = [isScanning |-> TRUE, currentSlice |-> 0, totalSlices |-> 0]
    /\ UNCHANGED << loading, reconPending >>
    /\ UNCHANGED << caseId, scoutRefreshToken, isPlanningActive, planningData,
                    scoutCompleted, planningCompleted, scoutPending, savePending,
                    stopCtPending >>
    /\ UNCHANGED viewerVars
    /\ lastSaved' = NoSave

\* Start Scan button: handleStartScan up to its await, or to its end without a case
StartScan ==
    /\ canStartScan /\ ~loading
    /\ error' = NoError
    /\ IF caseId # NoCase
       THEN /\ loading' = TRUE
            /\ reconPending' = {[case_id |-> caseId, planning |-> planningData]}
            /\ UNCHANGED scanState
       ELSE /\ scanState' = [isScanning |-> TRUE, currentSlice |-> 0, totalSlices |-> 0]
            /\ UNCHANGED << loading, reconPending >>
    /\ UNCHANGED << caseId, scoutRefreshToken, isPlanningActive, planningData,
                    scoutCompleted, planningCompleted, scoutPending, savePending,
                    stopCtPending >>
    /\ UNCHANGED viewerVars
    /\ lastSaved' = NoSave

\* handleStartScan after its await: applyReconstruction resolved
ReconApplied ==
    /\ reconPending # {}
    /\ reconPending' = {}
    /\ scanState' = [isScanning |-> TRUE, currentSlice |-> 0, totalSlices |-> 0]
    /\ loading' = FALSE
    /\ UNCHANGED << caseId, scoutRefreshToken, isPlanningActive, planningData,
                    scoutCompleted, planningCompleted, error, scoutPending, savePending,
                    stopCtPending >>
    /\ UNCHANGED viewerVars
    /\ UNCHANGED lastSaved

\* a rejection handled like a success: the scan starts in the catch
ReconFailed_EntersScan ==
    /\ reconPending # {}
    /\ reconPending' = {}
    /\ error' = "Failed to start scan"
    /\ scanState' = [isScanning |-> TRUE, currentSlice |-> 0, totalSlices |-> 0]
    /\ loading' = FALSE
    /\ UNCHANGED << caseId, scoutRefreshToken, isPlanningActive, planningData,
                    scoutCompleted, planningCompleted, scoutPending, savePending,
                    stopCtPending >>
    /\ UNCHANGED viewerVars
    /\ UNCHANGED lastSaved

\* a rejection that leaves the loading flag set: no finally block
ReconFailed_KeepsLoading ==
    /\ reconPending # {}
    /\ reconPending' = {}
    /\ error' = "Failed to start scan"
    /\ loading' = loading
    /\ UNCHANGED << caseId, scoutRefreshToken, isPlanningActive, scanState, planningData,
                    scoutCompleted, planningCompleted, scoutPending, savePending,
                    stopCtPending >>
    /\ UNCHANGED viewerVars
    /\ UNCHANGED lastSaved

\* handleStartScan after its await: applyReconstruction rejected
ReconFailed ==
    /\ reconPending # {}
    /\ reconPending' = {}
    /\ error' = "Failed to start scan"
    /\ loading' = FALSE
    /\ UNCHANGED << caseId, scoutRefreshToken, isPlanningActive, scanState, planningData,
                    scoutCompleted, planningCompleted, scoutPending, savePending,
                    stopCtPending >>
    /\ UNCHANGED viewerVars
    /\ UNCHANGED lastSaved

\* Stop Scan button: handleStopScan
StopScan ==
    /\ scanState.isScanning /\ ~loading
    /\ error' = NoError
    /\ scanState' = [scanState EXCEPT !.isScanning = FALSE]
    /\ UNCHANGED << caseId, scoutRefreshToken, isPlanningActive, planningData,
                    scoutCompleted, loading, planningCompleted, scoutPending,
                    savePending, reconPending, stopCtPending >>
    /\ UNCHANGED viewerVars
    /\ UNCHANGED lastSaved

\* emergency STOP button: handleStopCt up to its await
StopCt ==
    /\ ~loading
    /\ InFlight < MaxInFlight
    /\ stopCtPending' = stopCtPending + 1
    /\ UNCHANGED << caseId, scoutRefreshToken, isPlanningActive, scanState, planningData,
                    scoutCompleted, loading, planningCompleted, error, scoutPending,
                    savePending, reconPending >>
    /\ UNCHANGED viewerVars
    /\ UNCHANGED lastSaved

\* handleStopCt after its await: stopCt resolved
StopCtDone ==
    /\ stopCtPending > 0
    /\ stopCtPending' = stopCtPending - 1
    /\ scanState' = [scanState EXCEPT !.isScanning = FALSE]
    /\ UNCHANGED << caseId, scoutRefreshToken, isPlanningActive, planningData,
                    scoutCompleted, loading, planningCompleted, error, scoutPending,
                    savePending, reconPending >>
    /\ UNCHANGED viewerVars
    /\ UNCHANGED lastSaved

\* handleStopCt after its await: stopCt rejected
StopCtFailed ==
    /\ stopCtPending > 0
    /\ stopCtPending' = stopCtPending - 1
    /\ error' = "Failed to stop CT"
    /\ UNCHANGED << caseId, scoutRefreshToken, isPlanningActive, scanState, planningData,
                    scoutCompleted, loading, planningCompleted, scoutPending, savePending,
                    reconPending >>
    /\ UNCHANGED viewerVars
    /\ UNCHANGED lastSaved

\* onScanComplete: the playback of the image area reached its last slice
ScanComplete ==
    /\ scanState.isScanning
    /\ scanState' = [scanState EXCEPT !.isScanning = FALSE]
    /\ UNCHANGED << caseId, scoutRefreshToken, isPlanningActive, planningData,
                    scoutCompleted, loading, planningCompleted, scoutPending >>
    /\ UNCHANGED viewerVars
    /\ UNCHANGED asyncPanelVars
    /\ UNCHANGED lastSaved

----------------------------------------------------------------------------
(* ScoutViewer: pointer events *)

workflowVars == << caseId, scoutRefreshToken, isPlanningActive, scanState,
                   scoutCompleted, loading, planningCompleted, scoutPending >>

\* a pointer-down that waits for the pending commits
MouseDown_WaitsForCommit(target) ==
    /\ isPlanningActive /\ scoutSize # NoFrame
    /\ dragSavePending = 0
    /\ dragging' = target
    /\ dragStartRef' = [y |-> HandleClientY(target, planning, scoutSize),
                        startY |-> planning.startY, endY |-> planning.endY,
                        fov |-> planning.fov]
    /\ UNCHANGED << planning, scoutSize, planningData, dragSavePending, moves >>
    /\ UNCHANGED workflowVars
    /\ UNCHANGED asyncPanelVars
    /\ UNCHANGED lastSaved

\* pointer-down on a handle of the planning overlay: handleMouseDown
MouseDown(target) ==
    /\ isPlanningActive /\ scoutSize # NoFrame
    /\ dragging' = target
    /\ dragStartRef' = [y |-> HandleClientY(target, planning, scoutSize),
                        startY |-> planning.startY, endY |-> planning.endY,
                        fov |-> planning.fov]
    /\ UNCHANGED << planning, scoutSize, planningData, dragSavePending, moves >>
    /\ UNCHANGED workflowVars
    /\ UNCHANGED asyncPanelVars
    /\ UNCHANGED lastSaved

\* pointer-move over the container: handleMouseMove, then the notification effect
MouseMove(clientX, clientY) ==
    /\ dragging # NoHandle /\ scoutSize # NoFrame
    /\ dragging = "fov" => Halvable(dragStartRef)
    /\ planning' = MovedPlanning(planning, dragStartRef, dragging, clientX, clientY, scoutSize)
    /\ planningData' = Notified(planning', scoutSize)
    /\ UNCHANGED << scoutSize, dragging, dragStartRef, dragSavePending >>
    /\ UNCHANGED workflowVars
    /\ UNCHANGED asyncPanelVars
    /\ lastSaved' = NoSave

\* pointer-up over the container, or the pointer leaving it: handleMouseUp up to
\* its await
MouseUp ==
    /\ dragging # NoHandle
    /\ dragging' = NoHandle
    /\ IF isPlanningActive /\ scoutSize # NoFrame
       THEN /\ InFlight < MaxInFlight
            /\ dragSavePending' = dragSavePending + 1
       ELSE UNCHANGED dragSavePending
    /\ UNCHANGED << planning, scoutSize, planningData, dragStartRef, moves >>
    /\ UNCHANGED workflowVars
    /\ UNCHANGED asyncPanelVars
    /\ UNCHANGED lastSaved

\* a settled commit that reverts the session to the defaults of the frame
DragSaveSettled_Reverts ==
    /\ dragSavePending > 0
    /\ dragSavePending' = dragSavePending - 1
    /\ planning' = IF scoutSize # NoFrame THEN DefaultPlanning(scoutSize) ELSE planning
    /\ UNCHANGED << scoutSize, planningData, dragging, dragStartRef, moves >>
    /\ UNCHANGED workflowVars
    /\ UNCHANGED asyncPanelVars
    /\ UNCHANGED lastSaved

\* handleMouseUp after its await: savePlanning resolved or rejected; both only log
DragSaveSettled ==
    /\ dragSavePending > 0
    /\ dragSavePending' = dragSavePending - 1
    /\ UNCHANGED << planning, scoutSize, planningData, dragging, dragStartRef, moves >>
    /\ UNCHANGED workflowVars
    /\ UNCHANGED asyncPanelVars
    /\ UNCHANGED lastSaved

----------------------------------------------------------------------------
Next ==
    \/ \E c \in CaseIds : CaseChange(c)
    \/ ScoutScan
    \/ \E c \in CaseIds : ScoutLoaded(c)
    \/ \E c \in CaseIds : ScoutFailed(c)
    \/ StartPlanning
    \/ EndPlanning
    \/ EndPlanningSaved
    \/ EndPlanningSaveFailed
    \/ StartScan
    \/ ReconApplied
    \/ ReconFailed
    \/ StopScan
    \/ StopCt
    \/ StopCtDone
    \/ StopCtFailed
    \/ ScanComplete
    \/ \E h \in ConsoleHandles : MouseDown(h)
    \/ \E x \in PointerXs, y \in PointerYs : MouseMove(x, y) /\ UNCHANGED moves
    \/ MouseUp
    \/ DragSaveSettled

Spec == Init /\ [][Next]_vars

\* the continuation of the pending handleEndPlanning or handleStartScan
WorkflowCallSettles ==
    EndPlanningSaved \/ EndPlanningSaveFailed \/ ReconApplied \/ ReconFailed

\* the continuation of a pending loadScout, handleStopCt or handleMouseUp
OtherCallSettles ==
    \/ \E c \in CaseIds : ScoutLoaded(c) \/ ScoutFailed(c)
    \/ StopCtDone \/ StopCtFailed
    \/ DragSaveSettled

\* the collaborators answer: a call in flight eventually resolves or rejects.
\* The continuations of handleEndPlanning are disabled in the model only while
\* the bound on calls in flight is reached, hence strong fairness for them.
CallsSettle == SF_vars(WorkflowCallSettles) /\ WF_vars(OtherCallSettles)

LiveSpec == Spec /\ CallsSettle

----------------------------------------------------------------------------
(* SimTomLayout: handleScanStateChange alone. The callback is handed to       *)
(* LeftControlPanel as onScanStateChange and accepts any Partial<ScanState>;  *)
(* the scan state is any value of the ScanState type.                         *)

ScanKeys == {"isScanning", "currentSlice", "totalSlices"}

\* Partial<ScanState> values that carry the progress counters only
ProgressUpdates == { [currentSlice |-> s, totalSlices |-> t] : s, t \in 0..MaxSlice }

\* Partial<ScanState> values: the flag alone (handleStopScan, handleStopCt), the
\* counters alone, and the start of a scan (handleStartScan)
ScanPartials ==
    { [isScanning |-> b] : b \in BOOLEAN }
      \cup ProgressUpdates
      \cup { [isScanning |-> TRUE, currentSlice |-> 0, totalSlices |-> 0] }

\* setScanState((prev) => ({ ...prev, ...newState }))
MergedScanState(prev, newState) ==
    [k \in ScanKeys |-> IF k \in DOMAIN newState THEN newState[k] ELSE prev[k]]

\* handleScanStateChange(newState)
ScanStateChange(newState) ==
    /\ scanState' = MergedScanState(scanState, newState)
    /\ UNCHANGED << caseId, scoutRefreshToken, isPlanningActive, planningData,
                    scoutCompleted, loading, planningCompleted, scoutPending >>
    /\ UNCHANGED viewerVars
    /\ UNCHANGED asyncPanelVars
    /\ UNCHANGED lastSaved

ScanInit ==
    /\ caseId \in CaseIds
    /\ scoutRefreshToken = 0
    /\ isPlanningActive = FALSE
    /\ scanState \in [isScanning : BOOLEAN, currentSlice : 0..MaxSlice, totalSlices : 0..MaxSlice]
    /\ planningData = EmptyPlanningData
    /\ scoutCompleted = FALSE
    /\ loading = FALSE
    /\ planningCompleted = FALSE
    /\ error = NoError
    /\ scoutSize = NoFrame
    /\ planning = InitialPlanning
    /\ dragging = NoHandle
    /\ dragStartRef = InitialDragStart
    /\ scoutPending = [c \in CaseIds |-> 0]
    /\ savePending = {}
    /\ reconPending = {}
    /\ stopCtPending = 0
    /\ dragSavePending = 0
    /\ moves = 0
    /\ lastSaved = NoSave

ScanNext ==
    \/ \E n \in ScanPartials : ScanStateChange(n)
    \/ ScanComplete

ScanSpec == ScanInit /\ [][ScanNext]_vars

----------------------------------------------------------------------------
(* ScoutViewer: the scout load alone. A case is selected and the operator    *)
(* presses Scout Scan; the scout collaborator answers with a frame of any    *)
(* size { cols > 0, rows > 0 }.                                              *)

Frames == [width : 1..MaxFrameDim, height : 1..MaxFrameDim]

LoadInit ==
    /\ caseId \in CaseIds
    /\ scoutRefreshToken = 0
    /\ isPlanningActive = FALSE
    /\ scanState = IdleScan
    /\ planningData = EmptyPlanningData
    /\ scoutCompleted = FALSE
    /\ loading = FALSE
    /\ planningCompleted = FALSE
    /\ error = NoError
    /\ scoutSize = NoFrame
    /\ planning = InitialPlanning
    /\ dragging = NoHandle
    /\ dragStartRef = InitialDragStart
    /\ scoutPending = [c \in CaseIds |-> 0]
    /\ savePending = {}
    /\ reconPending = {}
    /\ stopCtPending = 0
    /\ dragSavePending = 0
    /\ moves = 0
    /\ lastSaved = NoSave

LoadNext ==
    \/ scoutPending[caseId] = 0 /\ ScoutScan
    \/ \E c \in CaseIds, size \in Frames : ScoutLoadedWith(c, size)
    \/ \E c \in CaseIds : ScoutFailed(c)

LoadSpec == LoadInit /\ [][LoadNext]_vars

----------------------------------------------------------------------------
(* The planning overlay alone: a scout of case A is loaded and planning is   *)
(* active (CaseChange("A"), ScoutScan, ScoutLoaded("A"), StartPlanning); the *)
(* operator only drags.                                                      *)

GeomInit ==
    /\ caseId = "A"
    /\ scoutRefreshToken = 1
    /\ isPlanningActive = TRUE
    /\ scanState = IdleScan
    /\ scoutSize = FrameOf("A")
    /\ planning = DefaultPlanning(FrameOf("A"))
    /\ planningData = PlanningDataOf(planning, scoutSize)
    /\ scoutCompleted = TRUE
    /\ loading = FALSE
    /\ planningCompleted = FALSE
    /\ error = NoError
    /\ dragging = NoHandle
    /\ dragStartRef = InitialDragStart
    /\ scoutPending = [c \in CaseIds |-> 0]
    /\ savePending = {}
    /\ reconPending = {}
    /\ stopCtPending = 0
    /\ dragSavePending = 0
    /\ moves = 0
    /\ lastSaved = NoSave

GeomNext ==
    \/ \E h \in Handles : MouseDown(h)
    \/ \E x \in GeomPointerXs, y \in GeomPointerYs :
            moves < MaxGeomMoves /\ MouseMove(x, y) /\ moves' = moves + 1
    \/ MouseUp
    \/ DragSaveSettled

GeomSpec == GeomInit /\ [][GeomNext]_vars

----------------------------------------------------------------------------
(* Planning geometry: the invariants of the data model *)

\* 0 <= startY, startY + MIN_GAP <= endY, endY <= frame height
LinesValid(p, size) ==
    /\ 0 <= p.startY
    /\ p.startY + Px(MIN_GAP) <= p.endY
    /\ p.endY <= Px(size.height)

\* the four edges of the FOV keep MIN_GAP and stay inside the frame
FovValid(p, size) ==
    /\ p.fov.x_min + Px(MIN_GAP) <= p.fov.x_max
    /\ p.fov.y_min + Px(MIN_GAP) <= p.fov.y_max
    /\ 0 <= p.fov.x_min /\ p.fov.x_max <= Px(size.width)
    /\ 0 <= p.fov.y_min /\ p.fov.y_max <= Px(size.height)

\* the frame is one whose default planning satisfies both invariants
DefaultsValid(size) ==
    /\ size # NoFrame
    /\ LinesValid(DefaultPlanning(size), size)
    /\ FovValid(DefaultPlanning(size), size)

\* C1 (stated as claimed; the code violates it): from the reset state of a frame
\* with valid defaults, every sequence of drags keeps 0 <= startY,
\* startY + 20 <= endY and endY <= frame height.
C1_LinesInvariant == DefaultsValid(scoutSize) => LinesValid(planning, scoutSize)

\* C2 (stated as claimed; the code violates it): from the reset state of a frame
\* with valid defaults, every sequence of drags keeps the FOV edges MIN_GAP
\* apart and inside the frame.
C2_FovInvariant == DefaultsValid(scoutSize) => FovValid(planning, scoutSize)

\* C3 (stated as claimed; the code violates it): with a scout loaded, the
\* vertical extent of the FOV equals the z-range after every sequence of drags.
C3_FovMirrorsLines ==
    scoutSize # NoFrame =>
        (planning.fov.y_min = planning.startY /\ planning.fov.y_max = planning.endY)

----------------------------------------------------------------------------
(* Workflow gate *)

\* C4: planningActive and planningCompleted are never both true.
C4_ActiveCompletedExclusive == ~(isPlanningActive /\ planningCompleted)

\* C4 witness: planning was completed for a case whose scout is done, and
\* planning is not active.
C4_Witness ==
    /\ planningCompleted /\ ~isPlanningActive /\ scoutCompleted
    /\ caseId # NoCase /\ ~loading

\* C5 (stated as claimed; the code violates it): when the savePlanning call of
\* an endPlanning issued for another case settles, planningCompleted and
\* canStartScan of the current case do not change.
C5_StaleSaveIgnored ==
    [][ (/\ savePending # {}
         /\ savePending' = {}
         /\ \A call \in savePending : call.case_id # caseId)
        => (planningCompleted' = planningCompleted /\ canStartScan' = canStartScan) ]_vars

\* C6: a change to a different case leaves scoutCompleted, planningActive,
\* planningCompleted and scanning false and both slice counters 0.
C6_CaseChangeResets ==
    [][ caseId' # caseId =>
          (/\ ~scoutCompleted' /\ ~isPlanningActive' /\ ~planningCompleted'
           /\ ~scanState'.isScanning
           /\ scanState'.currentSlice = 0 /\ scanState'.totalSlices = 0) ]_vars

\* C6 witness: the case was changed while the endPlanning of the old case,
\* whose scout is still the loaded one, was waiting for savePlanning.
C6_Witness ==
    /\ caseId = "B" /\ scoutSize = FrameOf("A")
    /\ \E call \in savePending : call.case_id = "A"
    /\ ~scoutCompleted /\ ~isPlanningActive /\ ~planningCompleted

\* C7 (stated as claimed; the code violates it): a change to a different case
\* discards the planning session, so that no scout frame, and with it no line
\* or FOV position, of the old case is left for planning in the new case.
C7_NoCarryOver ==
    [][ caseId' # caseId => scoutSize' = NoFrame ]_vars

\* C8 (stated as claimed; the code violates it): as long as Scout Scan was not
\* triggered for the current case, no scout acquisition is requested.
C8_NoScoutRequestBeforeScoutScan ==
    [][ ~scoutCompleted' => \A c \in CaseIds : scoutPending'[c] <= scoutPending[c] ]_vars

\* C9: a rejected savePlanning of endPlanning leaves planningCompleted,
\* canEditRecon and canStartScan false.
C9_RejectedSaveDoesNotComplete ==
    [][ EndPlanningSaveFailed =>
          (~planningCompleted' /\ ~canEditRecon' /\ ~canStartScan') ]_vars

\* C9 witness: the save of endPlanning was rejected and the case is back before
\* planning, with its scout done.
C9_Witness ==
    /\ error = "Failed to save planning"
    /\ ~planningCompleted /\ ~isPlanningActive /\ ~loading
    /\ scoutCompleted /\ WellFormed(planningData)

\* C10: each outcome of endPlanning (saved, rejected, skipped for want of a z
\* bound) ends with planningActive false, and planningCompleted turns true in
\* the saved outcome only.
C10_EndPlanningOutcomes ==
    [][ /\ EndPlanningSaved => (~isPlanningActive' /\ planningCompleted')
        /\ EndPlanningSaveFailed => (~isPlanningActive' /\ ~planningCompleted')
        /\ (EndPlanning /\ ~WellFormed(planningData)) =>
               (~isPlanningActive' /\ ~planningCompleted')
        /\ (~planningCompleted /\ planningCompleted') => EndPlanningSaved ]_vars

\* C10 witness: one endPlanning was rejected and a later one was saved.
C10_Witness ==
    /\ error = "Failed to save planning"
    /\ planningCompleted /\ ~isPlanningActive /\ savePending = {}

\* C11 (stated as claimed; the code violates it): while the savePlanning call of
\* endPlanning is pending, planningActive is already false.
C11_EndPlanningNotBlocked == savePending # {} => ~isPlanningActive

\* C12: when applyReconstruction rejects, scanning stays false, the slice
\* counters and the workflow facts are unchanged, the controls are released,
\* and canStartScan is what planningCompleted was before the rejection: true
\* again unless the case was changed during the call.
C12_RejectedReconLeavesGate ==
    [][ ReconFailed =>
          (/\ ~scanState'.isScanning
           /\ scanState' = scanState
           /\ scoutCompleted' = scoutCompleted
           /\ isPlanningActive' = isPlanningActive
           /\ planningCompleted' = planningCompleted
           /\ canStartScan' = planningCompleted
           /\ ~loading') ]_vars

\* C12 witness: the reconstruction call was rejected and Start Scan is enabled
\* again for the same case.
C12_Witness ==
    /\ error = "Failed to start scan"
    /\ canStartScan /\ ~loading /\ reconPending = {}
    /\ caseId # NoCase

C14_StopAlwaysStops ==
    [][ (StopScan \/ StopCtDone \/ StopCtFailed) =>
          (/\ ~scanState'.isScanning
           /\ scoutCompleted' = scoutCompleted
           /\ isPlanningActive' = isPlanningActive
           /\ planningCompleted' = planningCompleted) ]_vars

\* C15 (amended): canStartPlanning is false right after startPlanning and right
\* after an endPlanning whose save resolved; it turns true only by a Scout Scan
\* that sets scoutCompleted, or by an endPlanning that ends without a resolved
\* save (rejected, or skipped for want of a z bound).
C15_CanStartPlanningAgain ==
    [][ /\ StartPlanning => ~canStartPlanning'
        /\ EndPlanningSaved => ~canStartPlanning'
        /\ (~canStartPlanning /\ canStartPlanning') =>
              \/ (ScoutScan /\ ~scoutCompleted)
              \/ EndPlanningSaveFailed
              \/ (EndPlanning /\ ~WellFormed(planningData)) ]_vars

\* C15 witness: the save of endPlanning was rejected and Start Planning is
\* enabled again.
C15_Witness ==
    /\ error = "Failed to save planning"
    /\ canStartPlanning /\ ~loading /\ savePending = {}

\* C15 (as claimed; the code violates it): canStartPlanning is false right
\* after startPlanning and turns true only by a new scout or by a committed
\* endPlanning, never by an endPlanning whose save failed or was skipped.
C15_CanStartPlanningOnlyAfterCycle ==
    [][ /\ StartPlanning => ~canStartPlanning'
        /\ (~canStartPlanning /\ canStartPlanning') =>
              \/ (ScoutScan /\ ~scoutCompleted)
              \/ EndPlanningSaved ]_vars

\* C16 (stated as claimed; the code violates it): within one case, canStartScan
\* is false as long as no endPlanning of that case was saved (it leaves
\* planningCompleted = false only by the resolved save of an endPlanning issued
\* for the current case), and it is false whenever scanning is true.
C16_CanStartScanAfterOwnEndPlanning ==
    [][ /\ scanState'.isScanning => ~canStartScan'
        /\ (~planningCompleted /\ canStartScan') =>
              (/\ EndPlanningSaved
               /\ \A call \in savePending : call.case_id = caseId) ]_vars

\* C17: the gated transitions act only when their gate holds: planning becomes
\* active only from a state with canStartPlanning, a savePlanning call of
\* endPlanning is issued and planning is left only from a state with
\* canEndPlanning or by the call issued there, and a reconstruction call is
\* issued only from a state with canStartScan.
C17_GatedTransitions ==
    [][ /\ (~isPlanningActive /\ isPlanningActive') => canStartPlanning
        /\ StartPlanning => canStartPlanning
        /\ (savePending = {} /\ savePending' # {}) => canEndPlanning
        /\ EndPlanning => canEndPlanning
        /\ (reconPending = {} /\ reconPending' # {}) => canStartScan
        /\ StartScan => canStartScan
        /\ (~scanState.isScanning /\ scanState'.isScanning) =>
              (canStartScan \/ reconPending # {}) ]_vars

\* C17 witness: a reconstruction call is in flight, so that each of the three
\* gated transitions was taken once.
C17_Witness ==
    /\ reconPending # {} /\ loading /\ planningCompleted
    /\ ~isPlanningActive /\ ~scanState.isScanning

\* C18 (stated as claimed; the code violates it): scoutCompleted is true for a
\* case only when a scout frame was acquired and the planning session was
\* reset to it; it is not true with no frame loaded, be the acquisition
\* pending or failed.
C18_ScoutCompletedAfterAcquisition ==
    (scoutCompleted /\ caseId # NoCase) =>
        scoutSize # NoFrame

C20_NoDragWhenNotActive ==
    [][ (/\ ~isPlanningActive
         /\ \/ \E h \in Handles : MouseDown(h)
            \/ \E x \in PointerXs, y \in PointerYs : MouseMove(x, y)
            \/ MouseUp)
        => planning' = planning ]_vars

----------------------------------------------------------------------------
(* Drag controller *)

\* C21 (stated as claimed; the code violates it): a pointer-down received
\* while a handle is being dragged leaves the active handle and the captured
\* anchor unchanged.
C21_SecondPointerDownIgnored ==
    [][ (dragging # NoHandle /\ \E h \in Handles : MouseDown(h))
        => (dragging' = dragging /\ dragStartRef' = dragStartRef) ]_vars

\* the pointer column x lies on the FOV body as it was at pointer-down
OnFovBody(x, anchor, size) ==
    LET imageX == Scaled(x - Rect.left, size.width, Rect.width)
    IN  anchor.fov.x_min <= imageX /\ imageX <= anchor.fov.x_max

\* C22 (stated as claimed; the code violates it): a pointer-move at the
\* pointer-down position leaves the dragged quantity at its anchor value: the
\* start line, the end line (when the anchor is not closer than MIN_GAP to the
\* other line) and, for a pointer-down anywhere on the FOV body, the FOV.
C22_AnchorPlusDelta ==
    [][ \A x \in GeomPointerXs, y \in GeomPointerYs :
          (MouseMove(x, y) /\ y = dragStartRef.y) =>
             /\ (dragging = "start" /\ dragStartRef.startY + Px(MIN_GAP) <= planning.endY)
                   => planning'.startY = dragStartRef.startY
             /\ (dragging = "end" /\ planning.startY + Px(MIN_GAP) <= dragStartRef.endY)
                   => planning'.endY = dragStartRef.endY
             /\ (dragging = "fov" /\ OnFovBody(x, dragStartRef, scoutSize))
                   => (/\ planning'.fov.x_min = dragStartRef.fov.x_min
                       /\ planning'.fov.x_max = dragStartRef.fov.x_max) ]_vars

\* C23 (stated as claimed; the code violates it): every step that ends a drag
\* (pointer-up, or the pointer leaving the surface) issues one savePlanning call
\* and leaves the session values as they are.
C23_CommitOnEveryRelease ==
    [][ (dragging # NoHandle /\ dragging' = NoHandle)
        => (dragSavePending' = dragSavePending + 1 /\ planning' = planning) ]_vars

\* C24: when the savePlanning call of a release settles, rejected or resolved,
\* the planning lines and the FOV, the workflow facts, the drag state and the
\* error shown are all unchanged.
C24_FailedCommitChangesNothing ==
    [][ DragSaveSettled =>
          (/\ planning' = planning
           /\ scoutSize' = scoutSize
           /\ planningData' = planningData
           /\ WorkflowFacts' = WorkflowFacts
           /\ dragging' = dragging
           /\ error' = error /\ loading' = loading) ]_vars

\* C24 witness: the commit of a release is pending for a session that a drag
\* moved away from the defaults of its frame.
C24_Witness ==
    /\ dragSavePending > 0 /\ dragging = NoHandle
    /\ isPlanningActive /\ scoutSize # NoFrame
    /\ planning # DefaultPlanning(scoutSize)

\* C25: a pending commit never freezes pointer interaction: a release ends the
\* drag in the same step, and with a commit pending a pointer-down can still
\* start a drag (planning active, scout loaded) and a pointer-move can still
\* move the grabbed handle.
C25_PendingCommitDoesNotFreeze ==
    /\ [][ MouseUp => dragging' = NoHandle ]_vars
    /\ []( (dragSavePending > 0 /\ isPlanningActive /\ scoutSize # NoFrame)
             => ENABLED (\E h \in ConsoleHandles : MouseDown(h)) )
    /\ []( (dragSavePending > 0 /\ dragging # NoHandle /\ scoutSize # NoFrame)
             => ENABLED (\E x \in PointerXs, y \in PointerYs :
                            MouseMove(x, y) /\ UNCHANGED moves) )

\* C25 witness: with the commit of the previous drag still pending, a new drag
\* has moved the start line away from its anchor.
C25_Witness ==
    /\ dragSavePending > 0 /\ dragging = "start"
    /\ isPlanningActive
    /\ planning.startY # dragStartRef.startY

----------------------------------------------------------------------------
(* Line moves as functions of the session *)

\* the candidate of a line drag before clamping: the line plus the scaled
\* pointer delta from the pointer-down on the line to row y
RawY(p, target, y, size) ==
    (IF target = "start" THEN p.startY ELSE p.endY)
        + Scaled(y - HandleClientY(target, p, size), size.height, Rect.height)

\* neither raw position passes the other line, before or after the other move
NoCross(p, ys, ye, size) ==
    LET rs == RawY(p, "start", ys, size)
        re == RawY(p, "end", ye, size)
    IN  /\ rs + Px(MIN_GAP) <= p.endY
        /\ p.startY + Px(MIN_GAP) <= re
        /\ rs + Px(MIN_GAP) <= re

StartThenEnd(p, ys, ye, size) == Dragged(Dragged(p, "start", ys, size), "end", ye, size)
EndThenStart(p, ys, ye, size) == Dragged(Dragged(p, "end", ye, size), "start", ys, size)

\* C26 (amended): from the same session, a start-line drag to row ys and an
\* end-line drag to row ye give the same lines and FOV in either order whenever
\* neither raw position is closer than MIN_GAP to the other line's position
\* before and after the other move.
C26_LineMovesCommuteWhenUnclamped ==
    \A ys \in GeomPointerYs, ye \in GeomPointerYs :
        NoCross(planning, ys, ye, scoutSize) =>
            StartThenEnd(planning, ys, ye, scoutSize) = EndThenStart(planning, ys, ye, scoutSize)

\* C26 witness: a session and two rows that satisfy the condition and move
\* both lines.
C26_Witness ==
    \E ys \in GeomPointerYs, ye \in GeomPointerYs :
        /\ NoCross(planning, ys, ye, scoutSize)
        /\ StartThenEnd(planning, ys, ye, scoutSize).startY # planning.startY
        /\ StartThenEnd(planning, ys, ye, scoutSize).endY # planning.endY
        /\ moves > 0

\* C26 (as claimed; the code violates it): the two drags give the same lines
\* and FOV in either order for all raw inputs.
C26_LineMovesCommute ==
    \A ys \in GeomPointerYs, ye \in GeomPointerYs :
        StartThenEnd(planning, ys, ye, scoutSize) = EndThenStart(planning, ys, ye, scoutSize)

----------------------------------------------------------------------------
(* Scout load *)

\* the planning coordinate u is the whole number of pixels nearest to
\* tenths/10 of n
IsRoundedTenths(u, tenths, n) ==
    /\ u % Sub = 0
    /\ 10 * (u \div Sub) - 5 <= tenths * n
    /\ tenths * n < 10 * (u \div Sub) + 5

\* the session holds the defaults of the frame
HoldsDefaults(p, size) ==
    /\ IsRoundedTenths(p.startY, 2, size.height)
    /\ IsRoundedTenths(p.endY, 8, size.height)
    /\ IsRoundedTenths(p.fov.x_min, 2, size.width)
    /\ p.fov.x_max = Px(size.width) - p.fov.x_min
    /\ p.fov.y_min = p.startY
    /\ p.fov.y_max = p.endY

\* C27: every successful scout load leaves the session at the defaults of the
\* loaded frame (lines at 20% and 80% of the height, FOV inset by 20% of the
\* width, FOV rows equal to the lines); for a frame 800 wide and 1000 high the
\* defaults are startY=200, endY=800, fov={160, 640, 200, 800}.
C27_LoadResetsToDefaults ==
    [][ (\E c \in CaseIds : ScoutLoaded(c)) =>
          (/\ scoutSize' # NoFrame
           /\ HoldsDefaults(planning', scoutSize')
           /\ DefaultPlanning([width |-> 800, height |-> 1000])
                 = [startY |-> Px(200), endY |-> Px(800),
                    fov |-> Fov(Px(160), Px(640), Px(200), Px(800))]) ]_vars

\* C27 witness: the scout of case B (40 x 50) is loaded and the session holds
\* startY=10, endY=40, fov={8, 32, 10, 40}.
C27_Witness ==
    /\ caseId = "B" /\ scoutSize = FrameOf("B")
    /\ planning = [startY |-> Px(10), endY |-> Px(40),
                   fov |-> Fov(Px(8), Px(32), Px(10), Px(40))]

----------------------------------------------------------------------------
(* Line moves: clamping and frame effects *)

\* the candidate of the line drag in progress before clamping: anchor plus
\* the scaled pointer delta to row y
RawOfDrag(anchorValue, y) ==
    anchorValue + Scaled(y - dragStartRef.y, scoutSize.height, Rect.height)

\* frame 800 x 1000 in the 40 x 50 container, startY=200, end line grabbed at
\* endY=810 on display row 40
ExampleSession == [startY |-> Px(200), endY |-> Px(810),
                   fov |-> Fov(Px(160), Px(640), Px(200), Px(810))]
ExampleAnchor == [y |-> 40, startY |-> ExampleSession.startY,
                  endY |-> ExampleSession.endY, fov |-> ExampleSession.fov]

C29_LineMoveFrame ==
    [][ /\ dragging = "start" =>
              \A x \in GeomPointerXs, y \in GeomPointerYs :
                 MouseMove(x, y) =>
                   /\ planning'.startY =
                         Max(0, Min(RawOfDrag(dragStartRef.startY, y), planning.endY - Px(MIN_GAP)))
                   /\ planning'.fov.y_min = planning'.startY
                   /\ planning'.endY = planning.endY
                   /\ planning'.fov.y_max = planning.fov.y_max
                   /\ planning'.fov.x_min = planning.fov.x_min
                   /\ planning'.fov.x_max = planning.fov.x_max
        /\ dragging = "end" =>
              \A x \in GeomPointerXs, y \in GeomPointerYs :
                 MouseMove(x, y) =>
                   /\ planning'.endY =
                         Min(Px(scoutSize.height),
                             Max(RawOfDrag(dragStartRef.endY, y), planning.startY + Px(MIN_GAP)))
                   /\ planning'.fov.y_max = planning'.endY
                   /\ planning'.startY = planning.startY
                   /\ planning'.fov.y_min = planning.fov.y_min
                   /\ planning'.fov.x_min = planning.fov.x_min
                   /\ planning'.fov.x_max = planning.fov.x_max ]_vars

\* C29 witness: a start-line drag moved startY and fov.y_min together while the
\* FOV columns differ from the defaults of the frame.
C29_Witness ==
    /\ dragging = "start" /\ moves > 1
    /\ planning.startY # dragStartRef.startY
    /\ planning.fov.y_min = planning.startY
    /\ planning.fov.x_min # DefaultPlanning(scoutSize).fov.x_min

\* one drag of the FOV body: pointer-down on it, then one pointer-move to (x, y)
FovDragged(p, x, y, size) ==
    MovedPlanning(p, AnchorAt("fov", p, size), "fov", x, y, size)

\* C30 (stated as claimed; the code violates it): from every session reached by
\* drags, moving the FOV as a unit to any pointer position keeps its width and
\* height as they were at pointer-down and keeps all four edges inside the
\* frame.
C30_FovMoveKeepsSizeInsideFrame ==
    \A x \in GeomPointerXs, y \in GeomPointerYs :
        Halvable(AnchorAt("fov", planning, scoutSize)) =>
            LET q == FovDragged(planning, x, y, scoutSize)
            IN  /\ q.fov.x_max - q.fov.x_min = planning.fov.x_max - planning.fov.x_min
                /\ q.fov.y_max - q.fov.y_min = planning.fov.y_max - planning.fov.y_min
                /\ 0 <= q.fov.x_min /\ q.fov.x_max <= Px(scoutSize.width)
                /\ 0 <= q.fov.y_min /\ q.fov.y_max <= Px(scoutSize.height)
                /\ q.fov.x_min <= Px(scoutSize.width) /\ 0 <= q.fov.x_max
                /\ q.fov.y_min <= Px(scoutSize.height) /\ 0 <= q.fov.y_max

----------------------------------------------------------------------------
(* FOV edge resizes: frame effects *)

\* C31: a resize of the FOV top edge sets startY to the new fov.y_min and a
\* resize of the bottom edge sets endY to the new fov.y_max; a resize of the
\* left edge changes only fov.x_min and a resize of the right edge only
\* fov.x_max, leaving startY, endY, fov.y_min and fov.y_max unchanged.
C31_EdgeResizeFrame ==
    [][ /\ dragging = "fov-top" =>
              \A x \in GeomPointerXs, y \in GeomPointerYs :
                 MouseMove(x, y) =>
                   /\ planning'.startY = planning'.fov.y_min
                   /\ planning'.endY = planning.endY
                   /\ planning'.fov.y_max = planning.fov.y_max
                   /\ planning'.fov.x_min = planning.fov.x_min
                   /\ planning'.fov.x_max = planning.fov.x_max
        /\ dragging = "fov-bottom" =>
              \A x \in GeomPointerXs, y \in GeomPointerYs :
                 MouseMove(x, y) =>
                   /\ planning'.endY = planning'.fov.y_max
                   /\ planning'.startY = planning.startY
                   /\ planning'.fov.y_min = planning.fov.y_min
                   /\ planning'.fov.x_min = planning.fov.x_min
                   /\ planning'.fov.x_max = planning.fov.x_max
        /\ dragging = "fov-left" =>
              \A x \in GeomPointerXs, y \in GeomPointerYs :
                 MouseMove(x, y) =>
                   planning' = [planning EXCEPT !.fov.x_min = planning'.fov.x_min]
        /\ dragging = "fov-right" =>
              \A x \in GeomPointerXs, y \in GeomPointerYs :
                 MouseMove(x, y) =>
                   planning' = [planning EXCEPT !.fov.x_max = planning'.fov.x_max] ]_vars

\* C31 witness: the top edge of the FOV was resized to another row and the
\* start line followed it, after the left edge had been resized
C31_Witness ==
    /\ dragging = "fov-top" /\ moves > 1
    /\ planning.fov.y_min # dragStartRef.fov.y_min
    /\ planning.startY = planning.fov.y_min
    /\ planning.fov.x_min # DefaultPlanning(scoutSize).fov.x_min
    /\ planning.endY = DefaultPlanning(scoutSize).endY

----------------------------------------------------------------------------
(* Scan progress *)

----------------------------------------------------------------------------
(* Scout load: frames of every size *)

\* C33 (stated as claimed; the code violates it): for every scout frame with
\* width > 0 and height > 0, also one smaller than 34 pixels in a dimension,
\* the state right after the reset of a load satisfies
\* startY + 20 <= endY <= height, x_min + 20 <= x_max <= width and
\* y_min + 20 <= y_max.
C33_ResetValidForEveryFrame ==
    [][ \A c \in CaseIds, size \in Frames :
          ScoutLoadedWith(c, size) =>
             /\ planning'.startY + Px(MIN_GAP) <= planning'.endY
             /\ planning'.endY <= Px(size.height)
             /\ planning'.fov.x_min + Px(MIN_GAP) <= planning'.fov.x_max
             /\ planning'.fov.x_max <= Px(size.width)
             /\ planning'.fov.y_min + Px(MIN_GAP) <= planning'.fov.y_max ]_vars

----------------------------------------------------------------------------
(* Stale collaborator responses *)

\* C34 (stated as claimed; the code violates it): the response to a scout
\* request made for one case, arriving after the operator has switched to
\* another case, neither installs its frame nor resets the planning geometry.
C34_StaleScoutIgnored ==
    [][ \A c \in CaseIds :
          (c # caseId /\ ScoutLoaded(c)) =>
              (scoutSize' = scoutSize /\ planning' = planning) ]_vars

----------------------------------------------------------------------------
(* Workflow order *)

\* C35 (stated as claimed; the code violates it): in every reachable state a
\* running scan implies planningCompleted for the current case, also when the
\* case changes while the applyReconstruction call of handleStartScan is pending.
C35_ScanningImpliesPlanningCompleted == scanState.isScanning => planningCompleted

\* C36 (stated as claimed; the code violates it): in every reachable state
\* isPlanningActive or planningCompleted implies scoutCompleted.
C36_ScoutBeforePlanning == (isPlanningActive \/ planningCompleted) => scoutCompleted

----------------------------------------------------------------------------
(* End Planning and the following Start Scan *)

\* C37 (stated as claimed; the code violates it): when no drag and no Scout
\* Scan of the operator happens between a successful End Planning and the
\* following Start Scan, the planning lines and FOV handed to
\* applyReconstruction are the ones End Planning persisted.
C37_EndPlanningKeepsGeometry ==
    [][ (lastSaved # NoSave /\ StartScan) => SameGeometry(planningData, lastSaved) ]_vars

----------------------------------------------------------------------------
(* Asynchronous workflow operations *)

\* the savePlanning call of handleEndPlanning or the applyReconstruction call of
\* handleStartScan is pending
WorkflowCallPending == savePending # {} \/ reconPending # {}

\* C38: at most one of the two workflow calls is pending at any time, and while
\* one is pending Start Planning, End Planning, Start Scan and Scout Scan
\* cannot be started.
C38_OneWorkflowCallAtATime ==
    /\ Cardinality(savePending) + Cardinality(reconPending) <= 1
    /\ WorkflowCallPending =>
          /\ loading
          /\ ~ENABLED StartPlanning
          /\ ~ENABLED EndPlanning
          /\ ~ENABLED StartScan
          /\ ~ENABLED ScoutScan

\* C38 witness: the save of End Planning is pending while planning is still
\* active, so only the loading flag keeps End Planning from starting again
C38_Witness == savePending # {} /\ canEndPlanning /\ loading /\ reconPending = {}

\* C39: provided every collaborator call eventually resolves or rejects, the
\* loading flag set by End Planning or Start Scan is eventually cleared, after
\* a resolved call as after a rejected one: at every moment the flag is clear
\* or will be cleared later, so the controls never stay disabled forever.
C39_LoadingEventuallyCleared == []<>(~loading)

\* C39 witness: the applyReconstruction call of Start Scan was rejected and the
\* loading flag is cleared
C39_Witness == ~loading /\ error = "Failed to start scan" /\ reconPending = {}

====
